---- MODULE Spec2Model ----
(***************************************************************************)
(* Model of monzo_py.MonzoTransactions (src/src/monzo_py/                  *)
(* monzo_transactions.py): the OAuth2 credential life cycle kept in the    *)
(* instance field _credentials and in the system keyring under the fixed   *)
(* key ("monzo-py", "google-oauth-token"), the raw rows cached in _data,   *)
(* and the transactions table duck_db() builds from them.                  *)
(*                                                                         *)
(* Every method is one action.  A method body is computed by an operator   *)
(* over a context record                                                   *)
(*     [cred, store, nextId, data, remote, trace, exc, ret]                *)
(* that threads self._credentials, the keyring slot, self._data, the log   *)
(* of external calls the method made, the exception in flight and the      *)
(* value returned.                                                         *)
(*                                                                         *)
(* Spec is the credential life cycle, SpecLoader the fetching and loading  *)
(* of a spreadsheet, SpecConvert the cell converters on single cells,      *)
(* SpecNew the constructor, and SpecRace one credentials() call taken one  *)
(* keyring read at a time while a second instance works on the same slot.  *)
(* The outcomes of the external calls (keyring, Google refresh, browser    *)
(* flow) are inputs of the action.                                         *)
(***************************************************************************)
EXTENDS Integers, Sequences, FiniteSets, TLC

VARIABLES
    cred,      \* self._credentials
    store,     \* the keyring slot under the fixed (service, username) key
    nextId,    \* identity of the next credential the browser flow issues
    data,      \* self._data, the cached raw rows
    remote,    \* the rows the spreadsheet holds in the configured range
    last       \* the last method call: state before it, log, outcome, state after it

vars == <<cred, store, nextId, data, remote, last>>

----------------------------------------------------------------------------
(* Bounds *)

\* credentials the browser flow may issue in one behaviour
MaxCreds == 3

\* rows of the spreadsheet, header included
MaxRows == 3

\* characters of a spreadsheet identifier
MaxIdLen == 2

\* keyring operations of a second instance during one credentials() call
MaxOther == 2

----------------------------------------------------------------------------
(* Values *)

NoCred == [kind |-> "None"]

TokenStates == {"FRESH", "STALE", "INVALID"}

Creds == [kind : {"Credentials"}, id : 0..MaxCreds, state : TokenStates]

NoToken == [kind |-> "None"]

\* keyring values json.loads / from_authorized_user_info cannot turn into
\* credentials: "", text that is not JSON, JSON without the required fields
EmptyString == [kind |-> "empty"]
BadJson == [kind |-> "badjson"]
BadFormat == [kind |-> "badformat"]
Garbage == {EmptyString, BadJson, BadFormat}

ToJson(c) == [kind |-> "json", id |-> c.id, state |-> c.state]

FromAuthorizedUserInfo(j) == [kind |-> "Credentials", id |-> j.id, state |-> j.state]

Tokens == {ToJson(c) : c \in Creds}

ValueErrors == {"CredentialsNotSet", "NoTokenFound", "InvalidTokenData", "FailedToSave"}

Emit(c, e) == [c EXCEPT !.trace = Append(@, e)]

Raise(c, x) == [c EXCEPT !.exc = x]

Return(c, v) == [c EXCEPT !.ret = v]

Count(seq, S) == Cardinality({k \in DOMAIN seq : seq[k] \in S})

----------------------------------------------------------------------------
(* Methods *)

\* variant of _token_exists that tests the value read for truth
TokenExists_Truthy(c, readOk) ==
    LET c1 == Emit(c, "_token_exists") IN
    IF readOk
    THEN Return(Emit(c1, "keyring.get"), c.store \notin {NoToken, EmptyString})
    ELSE Return(Emit(c1, "keyring.get_err"), FALSE)

\* _token_exists: one keyring.get_password; any exception gives False
TokenExists(c, readOk) ==
    LET c1 == Emit(c, "_token_exists") IN
    IF readOk
    THEN Return(Emit(c1, "keyring.get"), c.store # NoToken)
    ELSE Return(Emit(c1, "keyring.get_err"), FALSE)

\* the try block of _add_credentials_from_token applied to the value read:
\* every failure leaves it as ValueError("Invalid token data in keyring")
LoadToken(c) ==
    IF c.store \in {NoToken, EmptyString} THEN Raise(c, "InvalidTokenData")
    ELSE IF c.store = BadJson THEN Raise(c, "InvalidTokenData")
    ELSE IF c.store = BadFormat THEN Raise(c, "InvalidTokenData")
    ELSE [c EXCEPT !.cred = FromAuthorizedUserInfo(c.store)]

\* _add_credentials_from_token after its _token_exists() call, which
\* ended in context c1: the second keyring read and the load
ReadAndLoad(c1, readOk) ==
    IF ~c1.ret THEN Raise(c1, "NoTokenFound")
    ELSE IF ~readOk THEN Raise(Emit(c1, "keyring.get_err"), "InvalidTokenData")
    ELSE LoadToken(Emit(c1, "keyring.get"))

\* _add_credentials_from_token
AddCredentialsFromToken(c, existsOk, readOk) ==
    ReadAndLoad(TokenExists(Emit(c, "_add_credentials_from_token"), existsOk),
                readOk)

\* variant of _refresh_token that does nothing when no credential is set
RefreshToken_Silent(c, refreshOk) ==
    LET c1 == Emit(c, "_refresh_token") IN
    IF c1.cred # NoCred
    THEN IF refreshOk
         THEN [Emit(c1, "refresh") EXCEPT !.cred.state = "FRESH"]
         ELSE Raise(Emit(c1, "refresh_err"), "RefreshError")
    ELSE c1

\* _refresh_token
RefreshToken(c, refreshOk) ==
    LET c1 == Emit(c, "_refresh_token") IN
    IF c1.cred # NoCred
    THEN IF refreshOk
         THEN [Emit(c1, "refresh") EXCEPT !.cred.state = "FRESH"]
         ELSE Raise(Emit(c1, "refresh_err"), "RefreshError")
    ELSE Raise(c1, "CredentialsNotSet")

\* _add_credentials_from_secret: the browser flow
AddCredentialsFromSecret(c, flow) ==
    LET c1 == Emit(c, "_add_credentials_from_secret") IN
    CASE flow = "cred" ->
           [Emit(c1, "flow") EXCEPT
               !.cred = [kind |-> "Credentials", id |-> c.nextId, state |-> "FRESH"],
               !.nextId = @ + 1]
      [] flow = "none" -> [Emit(c1, "flow_none") EXCEPT !.cred = NoCred]
      [] flow = "err" -> Raise(Emit(c1, "flow_err"), "FlowError")

\* variant of _save_credentials without the "credentials not set" guard:
\* to_json() on None then fails inside the try block
SaveCredentials_NoGuard(c, writeOk) ==
    LET c1 == Emit(c, "_save_credentials") IN
    IF c1.cred # NoCred /\ writeOk
    THEN [Emit(c1, "keyring.set") EXCEPT !.store = ToJson(c1.cred)]
    ELSE Raise(Emit(c1, "keyring.set_err"), "FailedToSave")

\* _save_credentials
SaveCredentials(c, writeOk) ==
    LET c1 == Emit(c, "_save_credentials") IN
    IF c1.cred = NoCred THEN Raise(c1, "CredentialsNotSet")
    ELSE IF writeOk
         THEN [Emit(c1, "keyring.set") EXCEPT !.store = ToJson(c1.cred)]
         ELSE Raise(Emit(c1, "keyring.set_err"), "FailedToSave")

\* variant that runs the flow and does not save
FlowThenSave_NoSave(c, flow, writeOk) == AddCredentialsFromSecret(c, flow)

\* _add_credentials_from_secret() followed by _save_credentials()
FlowThenSave(c, flow, writeOk) ==
    LET c1 == AddCredentialsFromSecret(c, flow) IN
    IF c1.exc # "none" THEN c1 ELSE SaveCredentials(c1, writeOk)

\* variant in which a failed refresh is raised as a ValueError
RefreshThenSave_AsValueError(c, refreshOk, writeOk) ==
    LET c1 == RefreshToken(c, refreshOk) IN
    IF c1.exc = "RefreshError" THEN Raise(c1, "InvalidTokenData")
    ELSE IF c1.exc # "none" THEN c1 ELSE SaveCredentials(c1, writeOk)

\* _refresh_token() followed by _save_credentials()
RefreshThenSave(c, refreshOk, writeOk) ==
    LET c1 == RefreshToken(c, refreshOk) IN
    IF c1.exc # "none" THEN c1 ELSE SaveCredentials(c1, writeOk)

\* variant that refreshes every token that is not INVALID
NeedsRefresh_UnlessInvalid(token_state) == token_state \in {"FRESH", "STALE"}

\* the test that guards the refresh in credentials()
NeedsRefresh(token_state) == token_state = "STALE"

\* variant that never re-authorizes a loaded token
NeedsFlow_Never(token_state) == FALSE

\* the test that guards the re-authorization in credentials()
NeedsFlow(token_state) == token_state = "INVALID"

\* the try block of credentials(): load, then act on the state the token
\* had when it was loaded
AfterLoad(c1, in) ==
    LET token_state == IF c1.cred # NoCred THEN c1.cred.state ELSE "None"
        c2 == IF c1.cred # NoCred /\ NeedsRefresh(token_state)
              THEN RefreshThenSave(c1, in.rf, in.w1)
              ELSE c1
        c3 == IF c2.exc # "none" THEN c2
              ELSE IF c2.cred # NoCred /\ NeedsFlow(token_state)
                   THEN FlowThenSave(c2, in.f1, in.w1)
                   ELSE c2
    IN  IF c1.exc # "none" THEN c1 ELSE c3

TryLoad(c, in) == AfterLoad(AddCredentialsFromToken(c, in.r2, in.r3), in)

\* variant that lets the ValueError of the try block propagate
ExceptValueError_Propagate(c, in) == c

\* except ValueError: of credentials()
ExceptValueError(c, in) ==
    IF c.exc \in ValueErrors
    THEN FlowThenSave(Raise(c, "none"), in.f2, in.w2)
    ELSE c

\* the final check and return of credentials()
CheckAndReturn(c) ==
    IF c.exc # "none" THEN c
    ELSE IF c.cred = NoCred THEN Raise(c, "CredentialsNotSet")
    ELSE Return(c, c.cred)

\* credentials() from the second keyring read of the load on, c1 being the
\* context in which the _token_exists() call of _add_credentials_from_token
\* ended
FinishLoad(c1, in) ==
    CheckAndReturn(
        Return(ExceptValueError(AfterLoad(ReadAndLoad(c1, in.r3), in), in),
               NoCred))

\* credentials() of an instance holding no credential, after its own
\* _token_exists() call ended in context c0 without finding a token
FinishWithoutToken(c0, in) ==
    CheckAndReturn(Return(FlowThenSave(c0, in.f1, in.w1), NoCred))

\* variant of credentials() that looks into the keyring on every call
Credentials_AlwaysCheckStore(c, in) ==
    LET c0 == TokenExists(c, in.r1)
        body == IF c.cred = NoCred /\ c0.ret
                THEN ExceptValueError(TryLoad(c0, in), in)
                ELSE IF c.cred = NoCred
                     THEN FlowThenSave(c0, in.f1, in.w1)
                     ELSE c0
    IN  CheckAndReturn(Return(body, NoCred))

\* credentials()
Credentials(c, in) ==
    LET c0 == IF c.cred = NoCred THEN TokenExists(c, in.r1) ELSE Return(c, FALSE)
        body == IF c.cred = NoCred /\ c0.ret
                THEN ExceptValueError(TryLoad(c0, in), in)
                ELSE IF c.cred = NoCred
                     THEN FlowThenSave(c0, in.f1, in.w1)
                     ELSE c0
    IN  CheckAndReturn(Return(body, NoCred))

\* variant of clear_credentials() that resets _credentials inside the try
\* block, after the deletion
ClearCredentials_ResetInTry(c, deleteOk) ==
    IF deleteOk /\ c.store # NoToken
    THEN [Emit(c, "keyring.delete") EXCEPT !.store = NoToken, !.cred = NoCred]
    ELSE Emit(c, "keyring.delete_err")

\* clear_credentials()
ClearCredentials(c, deleteOk) ==
    LET c1 == IF deleteOk /\ c.store # NoToken
              THEN [Emit(c, "keyring.delete") EXCEPT !.store = NoToken]
              ELSE Emit(c, "keyring.delete_err")
    IN  [c1 EXCEPT !.cred = NoCred]

----------------------------------------------------------------------------
(* Cells: the values of a raw row.  A Python str is the sequence of its   *)
(* characters, so that parsing it is computed and not assumed.            *)

None == [kind |-> "None"]

Str(chars) == [kind |-> "str", chars |-> chars]

\* a cell that is not a str (a number the API client could hand back)
PyInt(n) == [kind |-> "int", val |-> n]

Digits == {"0", "1", "2", "3", "4", "5", "6", "7", "8", "9"}

DigitVal(ch) ==
    CASE ch = "0" -> 0 [] ch = "1" -> 1 [] ch = "2" -> 2 [] ch = "3" -> 3
      [] ch = "4" -> 4 [] ch = "5" -> 5 [] ch = "6" -> 6 [] ch = "7" -> 7
      [] ch = "8" -> 8 [] ch = "9" -> 9

DigitChar(n) == CHOOSE ch \in Digits : DigitVal(ch) = n

IsDigits(s) == \A k \in DOMAIN s : s[k] \in Digits

RECURSIVE Num(_)
\* int() of a sequence of digits
Num(s) ==
    IF s = <<>> THEN 0
    ELSE Num(SubSeq(s, 1, Len(s) - 1)) * 10 + DigitVal(s[Len(s)])

RECURSIVE ToStr(_)
\* str() of a natural number
ToStr(n) == IF n < 10 THEN <<DigitChar(n)>> ELSE ToStr(n \div 10) \o <<DigitChar(n % 10)>>

RECURSIVE Split(_, _)
\* the fields of s between the occurrences of the character sep
Split(s, sep) ==
    LET at == {k \in DOMAIN s : s[k] = sep} IN
    IF at = {} THEN <<s>>
    ELSE LET k == CHOOSE x \in at : \A y \in at : x <= y
         IN  <<SubSeq(s, 1, k - 1)>> \o Split(SubSeq(s, k + 1, Len(s)), sep)

RECURSIVE Strip(_)
\* str.strip() for the space character
Strip(s) ==
    IF s = <<>> THEN s
    ELSE IF s[1] = " " THEN Strip(Tail(s))
    ELSE IF s[Len(s)] = " " THEN Strip(SubSeq(s, 1, Len(s) - 1))
    ELSE s

RECURSIVE StripZeros(_)
\* a digit sequence without its leading zeros (at least one digit is kept)
StripZeros(s) ==
    IF Len(s) > 1 /\ s[1] = "0" THEN StripZeros(Tail(s)) ELSE s

----------------------------------------------------------------------------
(* strptime: the directives of the two formats the converters use *)

NonZero == Digits \ {"0"}

\* %d  3[0-1]|[1-2]\d|0[1-9]|[1-9]| [1-9]
MatchDay(f) ==
    \/ Len(f) = 2 /\ f[1] = "3" /\ f[2] \in {"0", "1"}
    \/ Len(f) = 2 /\ f[1] \in {"1", "2"} /\ f[2] \in Digits
    \/ Len(f) = 2 /\ f[1] = "0" /\ f[2] \in NonZero
    \/ Len(f) = 1 /\ f[1] \in NonZero
    \/ Len(f) = 2 /\ f[1] = " " /\ f[2] \in NonZero

\* %m  1[0-2]|0[1-9]|[1-9]
MatchMonth(f) ==
    \/ Len(f) = 2 /\ f[1] = "1" /\ f[2] \in {"0", "1", "2"}
    \/ Len(f) = 2 /\ f[1] = "0" /\ f[2] \in NonZero
    \/ Len(f) = 1 /\ f[1] \in NonZero

\* %Y  \d\d\d\d
MatchYear(f) == Len(f) = 4 /\ IsDigits(f)

\* %H  2[0-3]|[0-1]\d|\d
MatchHour(f) ==
    \/ Len(f) = 2 /\ f[1] = "2" /\ f[2] \in {"0", "1", "2", "3"}
    \/ Len(f) = 2 /\ f[1] \in {"0", "1"} /\ f[2] \in Digits
    \/ Len(f) = 1 /\ f[1] \in Digits

\* %M  [0-5]\d|\d
MatchMinute(f) ==
    \/ Len(f) = 2 /\ f[1] \in {"0", "1", "2", "3", "4", "5"} /\ f[2] \in Digits
    \/ Len(f) = 1 /\ f[1] \in Digits

\* %S  6[0-1]|[0-5]\d|\d
MatchSecond(f) ==
    \/ Len(f) = 2 /\ f[1] = "6" /\ f[2] \in {"0", "1"}
    \/ MatchMinute(f)

IsLeap(y) == y % 4 = 0 /\ (y % 100 # 0 \/ y % 400 = 0)

DaysInMonth(y, m) ==
    IF m = 2 THEN (IF IsLeap(y) THEN 29 ELSE 28)
    ELSE IF m \in {4, 6, 9, 11} THEN 30 ELSE 31

\* datetime.datetime.strptime(value, "%d/%m/%Y").date(); None stands for
\* the ValueError of a value that does not match or names no date
StrptimeDate(s) ==
    LET f == Split(s, "/") IN
    IF Len(f) = 3 /\ MatchDay(f[1]) /\ MatchMonth(f[2]) /\ MatchYear(f[3])
    THEN LET d == Num(Strip(f[1]))
             m == Num(f[2])
             y == Num(f[3])
         IN  IF y >= 1 /\ d <= DaysInMonth(y, m)
             THEN [kind |-> "date", year |-> y, month |-> m, day |-> d]
             ELSE None
    ELSE None

\* datetime.datetime.strptime(value, "%H:%M:%S").time()
StrptimeTime(s) ==
    LET f == Split(s, ":") IN
    IF Len(f) = 3 /\ MatchHour(f[1]) /\ MatchMinute(f[2]) /\ MatchSecond(f[3])
    THEN IF Num(f[3]) <= 59
         THEN [kind |-> "time", hour |-> Num(f[1]), minute |-> Num(f[2]),
               second |-> Num(f[3])]
         ELSE None
    ELSE None

----------------------------------------------------------------------------
(* Decimal *)

\* an exception leaving a converter
Raised(x) == [kind |-> "raise", exc |-> x]

\* str(value) of a cell that is not None
PyStr(cell) == IF cell.kind = "str" THEN cell.chars ELSE ToStr(cell.val)

\* decimal.Decimal(text) for text made of digits, sign, point and other
\* characters (no exponent, no NaN or Infinity): the sign, the digits
\* without leading zeros and the number of fractional digits, or
\* InvalidOperation
PyDecimal(text) ==
    LET t == Strip(text)
        signed == t # <<>> /\ t[1] \in {"+", "-"}
        body == IF signed THEN Tail(t) ELSE t
        parts == Split(body, ".")
        whole == parts[1]
        frac == IF Len(parts) = 2 THEN parts[2] ELSE <<>>
    IN  IF /\ Len(parts) <= 2
           /\ IsDigits(whole)
           /\ IsDigits(frac)
           /\ Len(whole) + Len(frac) >= 1
        THEN [kind |-> "Decimal", neg |-> signed /\ t[1] = "-",
              digits |-> StripZeros(whole \o frac), scale |-> Len(frac)]
        ELSE Raised("InvalidOperation")

\* convert_decimal: InvalidOperation is neither ValueError nor TypeError
ConvertDecimal(value) ==
    IF value = None \/ value = Str(<<>>) THEN None
    ELSE PyDecimal(PyStr(value))

\* variant of convert_date that parses year-month-day
ConvertDate_Iso(value) ==
    IF value = None \/ value = Str(<<>>) THEN None
    ELSE IF value.kind # "str" THEN None
    ELSE LET f == Split(value.chars, "-") IN
         IF Len(f) = 3 THEN StrptimeDate(f[3] \o <<"/">> \o f[2] \o <<"/">> \o f[1])
         ELSE None

\* convert_date: ValueError and TypeError give None
ConvertDate(value) ==
    IF value = None \/ value = Str(<<>>) THEN None
    ELSE IF value.kind # "str" THEN None
    ELSE StrptimeDate(value.chars)

\* convert_time
ConvertTime(value) ==
    IF value = None \/ value = Str(<<>>) THEN None
    ELSE IF value.kind # "str" THEN None
    ELSE StrptimeTime(value.chars)

\* digits of the decimal128(10, 2) value
Precision == 10
Scale == 2

RECURSIVE Zeros(_)
Zeros(n) == IF n <= 0 THEN <<>> ELSE <<"0">> \o Zeros(n - 1)

\* pyarrow's conversion of a converted decimal cell to decimal128(10, 2):
\* the value is rescaled to 2 fractional digits; ArrowInvalid when that
\* loses digits or needs more than 10 digits
ArrowDecimal(d) ==
    IF d = None THEN None
    ELSE LET n == Len(d.digits)
             keep == IF n > d.scale - Scale THEN n - (d.scale - Scale) ELSE 0
             unscaled ==
                 IF d.scale <= Scale
                 THEN StripZeros(d.digits \o Zeros(Scale - d.scale))
                 ELSE SubSeq(d.digits, 1, keep)
             dropped ==
                 IF d.scale <= Scale THEN <<>>
                 ELSE SubSeq(d.digits, keep + 1, n)
             u == IF unscaled = <<>> THEN <<"0">> ELSE unscaled
         IN  IF \E k \in DOMAIN dropped : dropped[k] # "0"
             THEN Raised("ArrowInvalid")
             ELSE IF Len(u) > Precision THEN Raised("ArrowInvalid")
             ELSE [kind |-> "decimal128", neg |-> d.neg /\ u # <<"0">>,
                   unscaled |-> u, scale |-> Scale]

----------------------------------------------------------------------------
(* Inputs: the outcomes of the external calls one method call makes *)

FlowOutcomes == {"cred", "none", "err"}

\* r1, r2, r3: the three keyring reads; w1, w2: the keyring writes;
\* rf: the refresh request; f1, f2: the browser flows
Inputs == [r1 : BOOLEAN, r2 : BOOLEAN, r3 : BOOLEAN, w1 : BOOLEAN, w2 : BOOLEAN,
           rf : BOOLEAN, f1 : FlowOutcomes, f2 : FlowOutcomes]

----------------------------------------------------------------------------
(* The table *)

Column(name, duck_type, pa_type) == [name |-> name, duck |-> duck_type, pa |-> pa_type]

\* _get_column_definitions
ColumnDefinitions == <<
    Column("transaction_id", "VARCHAR", "string"),
    Column("date", "DATE", "date32"),
    Column("time", "TIME", "time64(us)"),
    Column("type", "VARCHAR", "string"),
    Column("name", "VARCHAR", "string"),
    Column("emoji", "VARCHAR", "string"),
    Column("category", "VARCHAR", "string"),
    Column("amount", "DECIMAL(10,2)", "decimal128(10,2)"),
    Column("currency", "VARCHAR", "string"),
    Column("local_amount", "DECIMAL(10,2)", "decimal128(10,2)"),
    Column("local_currency", "VARCHAR", "string"),
    Column("notes_and_tags", "VARCHAR", "string"),
    Column("address", "VARCHAR", "string"),
    Column("receipt", "VARCHAR", "string"),
    Column("description", "VARCHAR", "string"),
    Column("category_split", "VARCHAR", "string") >>

NumColumns == Len(ColumnDefinitions)

\* _get_type_converters: the pyarrow types that have a converter
TypeConverters == {"decimal128(10,2)", "date32", "time64(us)"}

\* type_converters[pa_type](value)
Convert(pa_type, value) ==
    CASE pa_type = "decimal128(10,2)" -> ConvertDecimal(value)
      [] pa_type = "date32" -> ConvertDate(value)
      [] pa_type = "time64(us)" -> ConvertTime(value)

\* variant that reads the cell of the previous column
ConvertCell_OffByOne(row, i, pa_type) ==
    IF i <= Len(row) /\ i > 1
    THEN IF pa_type \in TypeConverters THEN Convert(pa_type, row[i - 1])
         ELSE row[i - 1]
    ELSE None

\* the body of the inner loop of _convert_data_columns: the value of
\* column i (from 1) for one raw row
ConvertCell(row, i, pa_type) ==
    IF i <= Len(row)
    THEN IF pa_type \in TypeConverters THEN Convert(pa_type, row[i])
         ELSE row[i]
    ELSE None

\* _convert_data_columns: one list per column, one entry per row
ConvertDataColumns(table_data, column_definitions) ==
    [i \in DOMAIN column_definitions |->
        [r \in DOMAIN table_data |->
            ConvertCell(table_data[r], i, column_definitions[i].pa)]]

\* variant in which an empty string becomes a null of the column
ArrowValue_EmptyToNull(pa_type, v) ==
    CASE pa_type = "decimal128(10,2)" ->
           IF v.kind = "raise" THEN v ELSE ArrowDecimal(v)
      [] pa_type = "string" ->
           IF v = None \/ v.kind = "str"
           THEN (IF v = Str(<<>>) THEN None ELSE v)
           ELSE Raised("ArrowTypeError")
      [] OTHER -> v

\* pyarrow's conversion of one converted value to the type of its column
ArrowValue(pa_type, v) ==
    CASE pa_type = "decimal128(10,2)" ->
           IF v.kind = "raise" THEN v ELSE ArrowDecimal(v)
      [] pa_type = "string" ->
           IF v = None \/ v.kind = "str" THEN v ELSE Raised("ArrowTypeError")
      [] OTHER -> v

\* the exception of the first value that is one, in column then row order
FirstRaised(columns) ==
    LET at == {<<i, r>> \in UNION {{i} \X DOMAIN columns[i] : i \in DOMAIN columns} :
                  columns[i][r].kind = "raise"}
    IN  IF at = {} THEN "none"
        ELSE LET first == CHOOSE p \in at : \A q \in at :
                              p[1] < q[1] \/ (p[1] = q[1] /\ p[2] <= q[2])
             IN  columns[first[1]][first[2]].exc

\* variant in which a registered decimal column becomes a DOUBLE
ArrowToDuck_DecimalAsDouble(pa_type) ==
    CASE pa_type = "string" -> "VARCHAR"
      [] pa_type = "date32" -> "DATE"
      [] pa_type = "time64(us)" -> "TIME"
      [] pa_type = "decimal128(10,2)" -> "DOUBLE"

\* the DuckDB type of a registered arrow column
ArrowToDuck(pa_type) ==
    CASE pa_type = "string" -> "VARCHAR"
      [] pa_type = "date32" -> "DATE"
      [] pa_type = "time64(us)" -> "TIME"
      [] pa_type = "decimal128(10,2)" -> "DECIMAL(10,2)"

NoTable == [kind |-> "None"]

\* variant of _create_empty_table that leaves out the last column
CreateEmptyTable_DropLast(column_definitions) ==
    LET kept == 1..(Len(column_definitions) - 1) IN
    [kind |-> "table", name |-> "transactions",
     names |-> [i \in kept |-> column_definitions[i].name],
     types |-> [i \in kept |-> column_definitions[i].duck],
     columns |-> [i \in kept |-> <<>>]]

\* _create_empty_table: CREATE TABLE transactions (...)
CreateEmptyTable(column_definitions) ==
    [kind |-> "table", name |-> "transactions",
     names |-> [i \in DOMAIN column_definitions |-> column_definitions[i].name],
     types |-> [i \in DOMAIN column_definitions |-> column_definitions[i].duck],
     columns |-> [i \in DOMAIN column_definitions |-> <<>>]]

\* _create_pyarrow_table followed by _register_table_with_duckdb
RegisterArrowTable(arrow_columns, column_definitions) ==
    [kind |-> "table", name |-> "transactions",
     names |-> [i \in DOMAIN column_definitions |-> column_definitions[i].name],
     types |-> [i \in DOMAIN column_definitions |->
                   ArrowToDuck(column_definitions[i].pa)],
     columns |-> arrow_columns]

\* variant of the remote read that empties _data before a failed read
Execute_ResetFirst(c1, remoteOk) ==
    IF c1.exc # "none" THEN c1
    ELSE IF remoteOk
         THEN Return([Emit(c1, "execute") EXCEPT !.data = c1.remote], None)
         ELSE Raise(Return([Emit(c1, "execute_err") EXCEPT !.data = <<>>], None),
                    "HttpError")

\* sheet.values().get(...).execute() and the assignment of its result to
\* _data, reached when service() returned in context c1
Execute(c1, remoteOk) ==
    IF c1.exc # "none" THEN c1
    ELSE IF remoteOk
         THEN Return([Emit(c1, "execute") EXCEPT !.data = c1.remote], None)
         ELSE Raise(Return(Emit(c1, "execute_err"), None), "HttpError")

\* variant of service() that builds the client without credentials()
Service_NoCredentials(c, in) == Emit(c, "service")

\* service(): build(..., credentials=self.credentials(), ...)
Service(c, in) == Credentials(Emit(c, "service"), in)

\* variant of fetch_data that stores one empty row when there are no values
FetchData_OneEmptyRow(c, in, remoteOk) ==
    LET c2 == Execute(Service(Emit(c, "fetch_data"), in), remoteOk) IN
    IF c2.exc = "none" /\ c2.data = <<>> THEN [c2 EXCEPT !.data = << <<>> >>]
    ELSE c2

\* fetch_data: service() asks for credentials, then one remote read
FetchData(c, in, remoteOk) ==
    Execute(Service(Emit(c, "fetch_data"), in), remoteOk)

\* 'return self._data' after the fetch of the data property ended in c2
ReturnData(c2) == IF c2.exc # "none" THEN c2 ELSE Return(c2, c2.data)

\* variant of the data property that fetches on every access
Data_AlwaysFetch(c, in, remoteOk) ==
    ReturnData(FetchData(Emit(c, "data"), in, remoteOk))

\* the data property
Data(c, in, remoteOk) ==
    IF c.data = <<>>
    THEN ReturnData(FetchData(Emit(c, "data"), in, remoteOk))
    ELSE Return(Emit(c, "data"), c.data)

\* the test of _validate_data_for_database on what the data property gave
CheckData(c1) ==
    IF c1.exc # "none" THEN c1
    ELSE IF c1.ret = <<>> THEN Raise(Return(c1, None), "NoDataAvailable")
    ELSE c1

\* variant of _validate_data_for_database that accepts an empty list
ValidateDataForDatabase_NoCheck(c, in, remoteOk) == Data(c, in, remoteOk)

\* _validate_data_for_database
ValidateDataForDatabase(c, in, remoteOk) == CheckData(Data(c, in, remoteOk))

\* the test of _handle_empty_data
IsEmptyData(rows) == Len(rows) <= 1

\* data[1:]
TableData(rows) == Tail(rows)

\* the end of duck_db: the first exception of a converter or of pyarrow
\* leaves the method, otherwise the arrow table is registered
RegisterOrRaise(c2, raised, arrow_raised, arrow) ==
    IF raised # "none" THEN Raise(Return(c2, NoTable), raised)
    ELSE IF arrow_raised # "none" THEN Raise(Return(c2, NoTable), arrow_raised)
    ELSE Return(Emit(c2, "register"), RegisterArrowTable(arrow, ColumnDefinitions))

\* _create_pyarrow_table: one array per column
ArrowColumns(converted) ==
    [i \in DOMAIN converted |->
        [r \in DOMAIN converted[i] |->
            ArrowValue(ColumnDefinitions[i].pa, converted[i][r])]]

\* duck_db after _convert_data_columns
LoadConverted(c2, converted, arrow) ==
    RegisterOrRaise(c2, FirstRaised(converted), FirstRaised(arrow), arrow)

\* duck_db after _create_duckdb_connection
BuildTable(c2, rows, converted) ==
    IF IsEmptyData(rows)
    THEN Return(Emit(c2, "CREATE TABLE"), CreateEmptyTable(ColumnDefinitions))
    ELSE LoadConverted(c2, converted, ArrowColumns(converted))

\* duck_db() from the end of its first statement, the call of
\* _validate_data_for_database, which ended in context c1
DuckDb(c1) ==
    IF c1.exc # "none" THEN Return(c1, NoTable)
    ELSE BuildTable(Emit(c1, "duckdb.connect"), c1.ret,
                    ConvertDataColumns(TableData(c1.ret), ColumnDefinitions))

----------------------------------------------------------------------------
(* State machine *)

Context == [cred |-> cred, store |-> store, nextId |-> nextId,
            data |-> data, remote |-> remote,
            trace |-> <<>>, exc |-> "none", ret |-> NoCred]

\* the effect of a method call that ended in context c
Commit(op, c) ==
    /\ cred' = c.cred
    /\ store' = c.store
    /\ nextId' = c.nextId
    /\ data' = c.data
    /\ remote' = remote
    /\ last' = [op |-> op, cred |-> cred, store |-> store, nextId |-> nextId,
                data |-> data, remote |-> remote,
                trace |-> c.trace, exc |-> c.exc, ret |-> c.ret,
                credAfter |-> c.cred, storeAfter |-> c.store,
                dataAfter |-> c.data]

\* no method called yet
NoCall == [op |-> "init", cred |-> NoCred, store |-> NoToken, nextId |-> 1,
           data |-> <<>>, remote |-> <<>>,
           trace |-> <<>>, exc |-> "none", ret |-> NoCred,
           credAfter |-> NoCred, storeAfter |-> NoToken, dataAfter |-> <<>>]

\* __init__ leaves _credentials None; the keyring holds whatever earlier
\* sessions left under the key
Init ==
    /\ cred = NoCred
    /\ store \in {NoToken} \cup Garbage \cup {t \in Tokens : t.id = 0}
    /\ nextId = 1
    /\ data = <<>>
    /\ remote = <<>>
    /\ last = NoCall

CallCredentials ==
    /\ nextId + 1 <= MaxCreds
    /\ \E c \in {Credentials(Context, in) : in \in Inputs} : Commit("credentials", c)

CallClearCredentials ==
    \E deleteOk \in BOOLEAN :
        Commit("clear_credentials", ClearCredentials(Context, deleteOk))

CallTokenExists ==
    \E readOk \in BOOLEAN :
        Commit("_token_exists", TokenExists(Context, readOk))

CallSaveCredentials ==
    \E writeOk \in BOOLEAN :
        Commit("_save_credentials", SaveCredentials(Context, writeOk))

CallRefreshToken ==
    \E refreshOk \in BOOLEAN :
        Commit("_refresh_token", RefreshToken(Context, refreshOk))

\* token_state is a function of the clock: as time passes a credential
\* goes from FRESH to STALE to INVALID
Older(s) == IF s = "FRESH" THEN "STALE" ELSE "INVALID"

ExpireCredential ==
    /\ cred # NoCred
    /\ cred.state # "INVALID"
    /\ cred' = [cred EXCEPT !.state = Older(@)]
    /\ UNCHANGED <<store, nextId, data, remote, last>>

ExpireToken ==
    /\ store \in Tokens
    /\ store.state # "INVALID"
    /\ store' = [store EXCEPT !.state = Older(@)]
    /\ UNCHANGED <<cred, nextId, data, remote, last>>

Next ==
    \/ CallCredentials
    \/ CallClearCredentials
    \/ CallTokenExists
    \/ CallSaveCredentials
    \/ CallRefreshToken
    \/ ExpireCredential
    \/ ExpireToken

Spec == Init /\ [][Next]_vars

----------------------------------------------------------------------------
(* The table loader: the spreadsheet is drawn at the start, the methods   *)
(* fetch it, cache it and build the table                                 *)

\* the cell of column i (from 0) in a row of each kind
Tag(letter, i) == Str(<<letter>> \o ToStr(i))

DateColumn == 1
TimeColumn == 2
AmountColumns == {7, 9}

GoodDate == Str(<<"1", "5", "/", "0", "6", "/", "2", "0", "2", "5">>)
IsoDate == Str(<<"2", "0", "2", "5", "-", "0", "6", "-", "1", "5">>)
GoodTime == Str(<<"0", "9", ":", "3", "0", ":", "1", "5">>)
BadTime == Str(<<"0", "9", "3", "0">>)
GoodAmount == Str(<<"-", "4", ".", "5", "0">>)
WholeAmount == Str(<<"2", "5", "0", "0">>)
TextAmount == Str(<<"a", "b", "c">>)
PreciseAmount == Str(<<"1", ".", "2", "3", "4">>)

RowKinds == {"good", "blank", "bad", "abc", "precise"}

CellOf(kind, i) ==
    CASE kind = "blank" -> Str(<<>>)
      [] kind = "label" -> Tag("h", i)
      [] i = DateColumn -> IF kind = "bad" THEN IsoDate ELSE GoodDate
      [] i = TimeColumn -> IF kind = "bad" THEN BadTime ELSE GoodTime
      [] i \in AmountColumns ->
           IF kind = "abc" THEN TextAmount
           ELSE IF kind = "precise" THEN PreciseAmount
           ELSE IF kind = "bad" THEN WholeAmount
           ELSE GoodAmount
      [] OTHER -> Tag("c", i)

Row(len, kind) == [k \in 1..len |-> CellOf(kind, k - 1)]

\* data rows: short, full and long rows of good cells, and full rows of
\* empty, malformed, non-numeric and over-precise cells
RowSet ==
    {Row(len, "good") : len \in {8, 16, 17}}
        \cup {Row(16, kind) : kind \in RowKinds}

\* first rows: the labels, or a row of cells no converter accepts
Headers == {Row(16, "label"), Row(16, "abc")}

Sheets ==
    {<<>>} \cup
    {<<h>> \o body : h \in Headers,
                     body \in UNION {[1..n -> RowSet] : n \in 0..(MaxRows - 1)}}

InitLoader ==
    /\ cred = NoCred
    /\ store = NoToken
    /\ nextId = 1
    /\ data = <<>>
    /\ remote \in Sheets
    /\ last = NoCall

\* the outcomes of the external calls of credentials() the loader is run
\* with: the first flow and the first keyring write vary
LoaderInputs ==
    {in \in Inputs : in.r1 /\ in.r2 /\ in.r3 /\ in.rf /\ in.w2 /\ in.f2 = "cred"}

CallFetchData ==
    /\ nextId + 1 <= MaxCreds
    /\ \E c \in {FetchData(Context, in, ok) : in \in LoaderInputs, ok \in BOOLEAN} :
           Commit("fetch_data", c)

AccessData ==
    /\ nextId + 1 <= MaxCreds
    /\ \E c \in {Data(Context, in, ok) : in \in LoaderInputs, ok \in BOOLEAN} :
           Commit("data", c)

CallDuckDb ==
    /\ nextId + 1 <= MaxCreds
    /\ \E c1 \in {ValidateDataForDatabase(Emit(Context, "duck_db"), in, ok) :
                        in \in LoaderInputs, ok \in BOOLEAN} :
           Commit("duck_db", DuckDb(c1))

NextLoader ==
    \/ CallFetchData
    \/ AccessData
    \/ CallDuckDb

SpecLoader == InitLoader /\ [][NextLoader]_vars

----------------------------------------------------------------------------
(* The converters on their own: one cell is drawn and converted *)

DayFields == {<<"5">>, <<"0", "5">>, <<"1", "5">>, <<"2", "9">>, <<"3", "1">>,
              <<"3", "2">>, <<" ", "5">>, <<"0", "0">>, <<"0">>}
MonthFields == {<<"6">>, <<"0", "6">>, <<"0", "2">>, <<"0", "4">>, <<"1", "2">>,
                <<"1", "3">>, <<"0", "0">>, <<" ", "6">>}
YearFields == {<<"2", "0", "2", "5">>, <<"2", "0", "2", "4">>, <<"2", "5">>,
               <<"0", "0", "0", "0">>, <<"1", "9", "0", "0">>}
HourFields == {<<"9">>, <<"0", "9">>, <<"2", "3">>, <<"2", "4">>, <<" ", "9">>}
MinuteFields == {<<"5">>, <<"3", "0">>, <<"6", "0">>}
SecondFields == {<<"3">>, <<"1", "5">>, <<"5", "9">>, <<"6", "0">>, <<"6", "1">>,
                 <<"1", "5", "0">>}

Joined(a, b, c, sep) == a \o <<sep>> \o b \o <<sep>> \o c

DateStrings ==
    {Joined(d, m, y, sep) : d \in DayFields, m \in MonthFields, y \in YearFields,
                            sep \in {"/", "-"}}
        \cup {Joined(y, m, d, "-") : d \in {<<"1", "5">>}, m \in {<<"0", "6">>},
                                     y \in YearFields}
        \cup {GoodDate.chars \o <<" ">>, GoodDate.chars \o <<"/", "1">>,
              <<"1", "5", "/", "0", "6">>}

TimeStrings ==
    {Joined(h, m, x, sep) : h \in HourFields, m \in MinuteFields, x \in SecondFields,
                            sep \in {":", "-"}}
        \cup {BadTime.chars, <<"0", "9", ":", "3", "0">>, GoodTime.chars \o <<" ">>,
              GoodTime.chars \o <<":", "0">>}

Signs == {<<>>, <<"-">>, <<"+">>}
WholeParts == {<<>>, <<"4">>, <<"0", "4">>, <<"2", "5", "0", "0">>, <<"a">>}
FracParts == {<<>>, <<".">>, <<".", "5">>, <<".", "5", "0">>, <<".", "5", "0", "0">>,
              <<".", "2", "3", "4">>, <<".", "5", ".", "0">>}

DecimalStrings ==
    {sg \o w \o f : sg \in Signs, w \in WholeParts, f \in FracParts}
        \cup {TextAmount.chars, <<" ">> \o GoodAmount.chars, <<"4", ",", "5", "0">>,
              <<"1", "2", "3", "4", "5", "6", "7", "8", ".", "1", "2">>,
              <<"1", "2", "3", "4", "5", "6", "7", "8", "9", ".", "1">>}

CellInputs ==
    {None, PyInt(5), PyInt(450)}
        \cup {Str(x) : x \in DateStrings \cup TimeStrings \cup DecimalStrings}

\* what the table holds for a decimal cell: the converter, then pyarrow
DecimalCell(value) ==
    LET d == ConvertDecimal(value) IN
    IF d.kind = "raise" THEN d ELSE ArrowDecimal(d)

InitConvert ==
    /\ cred = NoCred
    /\ store = NoToken
    /\ nextId = 1
    /\ data = <<>>
    /\ remote = <<>>
    /\ \E value \in CellInputs : last = [op |-> "cell", cell |-> value]

ConvertOneCell ==
    /\ last.op = "cell"
    /\ last' = [op |-> "convert", cell |-> last.cell,
                decimal |-> ConvertDecimal(last.cell),
                stored |-> DecimalCell(last.cell),
                date |-> ConvertDate(last.cell),
                time |-> ConvertTime(last.cell)]
    /\ UNCHANGED <<cred, store, nextId, data, remote>>

SpecConvert == InitConvert /\ [][ConvertOneCell]_vars

----------------------------------------------------------------------------
(* The constructor: the explicit spreadsheet_id and the value of the      *)
(* environment variable MONZO_SPREADSHEET_ID are drawn, then __init__ runs *)

\* bool(v) of None or a str
Truthy(v) == v # None /\ v # Str(<<>>)

\* Python's "a or b"
Or(a, b) == IF Truthy(a) THEN a ELSE b

\* __init__: the instance, or the ValueError of a missing identifier
New(spreadsheet_id, env) ==
    IF ~Truthy(Or(spreadsheet_id, env)) THEN Raised("SpreadsheetIdRequired")
    ELSE [kind |-> "MonzoTransactions", spreadsheet_id |-> spreadsheet_id,
          env_spreadsheet_id |-> env, credentials |-> NoCred, data |-> <<>>]

\* variant of the spreadsheet_id property that prefers the environment
SpreadsheetId_EnvFirst(self) == Or(self.env_spreadsheet_id, self.spreadsheet_id)

\* the spreadsheet_id property
SpreadsheetId(self) == Or(self.spreadsheet_id, self.env_spreadsheet_id)

IdChars == {"a", "b", " "}

\* None (parameter left out, variable unset) or a str
IdValues ==
    {None} \cup {Str(x) : x \in UNION {[1..n -> IdChars] : n \in 0..MaxIdLen}}

InitNew ==
    /\ cred = NoCred
    /\ store = NoToken
    /\ nextId = 1
    /\ data = <<>>
    /\ remote = <<>>
    /\ last \in [op : {"args"}, spreadsheet_id : IdValues, env : IdValues]

\* the outcome of __init__ and, when it returned, of the property
Constructed(self, spreadsheet_id, env) ==
    [op |-> "__init__", spreadsheet_id |-> spreadsheet_id, env |-> env,
     exc |-> IF self.kind = "raise" THEN self.exc ELSE "none",
     effective |-> IF self.kind = "raise" THEN None ELSE SpreadsheetId(self)]

Construct ==
    /\ last.op = "args"
    /\ last' = Constructed(New(last.spreadsheet_id, last.env),
                           last.spreadsheet_id, last.env)
    /\ cred' = NoCred
    /\ data' = <<>>
    /\ UNCHANGED <<store, nextId, remote>>

SpecNew == InitNew /\ [][Construct]_vars

----------------------------------------------------------------------------
(* Two instances on one keyring slot: one credentials() call of an instance
   holding no credential, taken one keyring read at a time, while a second
   instance deletes and writes the slot.  last.op is the position of the
   call, last.trace the log of the call with the operations of the second
   instance interleaved. *)

\* the call in progress, resumed on the keyring as it is now
Resume == [Context EXCEPT !.trace = last.trace, !.ret = last.ret]

\* the call in progress went on to position op and context c
Step(op, c) ==
    /\ cred' = c.cred
    /\ store' = c.store
    /\ nextId' = c.nextId
    /\ data' = c.data
    /\ remote' = remote
    /\ last' = [last EXCEPT !.op = op, !.trace = c.trace, !.exc = c.exc,
                            !.ret = c.ret, !.credAfter = c.cred,
                            !.storeAfter = c.store, !.dataAfter = c.data]

\* 'if not self._credentials and self._token_exists()': without a token
\* the call goes to the flow branch and ends
RaceCheck ==
    /\ last.op = "init"
    /\ \E c0 \in {TokenExists(Context, readOk) : readOk \in BOOLEAN} :
          IF c0.ret
          THEN Commit("credentials:checked", c0)
          ELSE \E c \in {FinishWithoutToken(c0, in) : in \in Inputs} :
                  Commit("credentials", c)

\* the _token_exists() call of _add_credentials_from_token: without a
\* token the load raises and the call ends through its except clause
RaceCheckAgain ==
    /\ last.op = "credentials:checked"
    /\ \E c1 \in {TokenExists(Emit(Resume, "_add_credentials_from_token"), readOk) :
                      readOk \in BOOLEAN} :
          IF c1.ret
          THEN Step("credentials:loading", c1)
          ELSE \E c \in {FinishLoad(c1, in) : in \in Inputs} :
                  Step("credentials", c)

\* the keyring read of the load and the rest of the call
RaceLoad ==
    /\ last.op = "credentials:loading"
    /\ \E c \in {FinishLoad(Resume, in) : in \in Inputs} : Step("credentials", c)

\* the call is between its first existence check and its load
InFlight == last.op \in {"credentials:checked", "credentials:loading"}

OtherEvents == {"other.delete", "other.set"}

\* the credentials the second instance may hold
OtherCredentials == {c \in Creds : c.id = MaxCreds}

\* clear_credentials() of the second instance deletes the token
OtherDeletes ==
    /\ InFlight
    /\ Count(last.trace, OtherEvents) < MaxOther
    /\ store # NoToken
    /\ store' = ClearCredentials([Context EXCEPT !.cred = NoCred], TRUE).store
    /\ last' = [last EXCEPT !.trace = Append(@, "other.delete")]
    /\ UNCHANGED <<cred, nextId, data, remote>>

\* _save_credentials() of the second instance writes its own token
OtherOverwrites ==
    /\ InFlight
    /\ Count(last.trace, OtherEvents) < MaxOther
    /\ \E other \in OtherCredentials :
          store' = SaveCredentials([Context EXCEPT !.cred = other], TRUE).store
    /\ last' = [last EXCEPT !.trace = Append(@, "other.set")]
    /\ UNCHANGED <<cred, nextId, data, remote>>

NextRace ==
    \/ RaceCheck
    \/ RaceCheckAgain
    \/ RaceLoad
    \/ OtherDeletes
    \/ OtherOverwrites

SpecRace == Init /\ [][NextRace]_vars

----------------------------------------------------------------------------
(* Reading the log of a call *)

FlowRuns == Count(last.trace, {"_add_credentials_from_secret"})

PersistCalls == Count(last.trace, {"_save_credentials"})

RefreshCalls == Count(last.trace, {"_refresh_token"})

ReadErrors == Count(last.trace, {"keyring.get_err"})

IsFlowEvent(e) == e \in {"flow", "flow_none", "flow_err"}

FlowEvents == SelectSeq(last.trace, IsFlowEvent)

Ended(e) == last.trace # <<>> /\ last.trace[Len(last.trace)] = e

Returned == last.exc = "none"

\* the call was credentials() on an instance holding no credential
FromNoCredential == last.op = "credentials" /\ last.cred = NoCred

\* ... and it found a token of state s in the keyring and loaded it
Loaded(s) ==
    /\ FromNoCredential
    /\ last.store \in Tokens
    /\ last.store.state = s
    /\ ReadErrors = 0

\* the credential the first flow of the call issued
Issued == [kind |-> "Credentials", id |-> last.nextId, state |-> "FRESH"]

\* the call went through the data property
Accessed == Count(last.trace, {"data"}) = 1

FetchCalls == Count(last.trace, {"fetch_data"})

\* calls of execute() on the spreadsheet request
RemoteCalls == Count(last.trace, {"execute", "execute_err"})

RemoteFailed == Count(last.trace, {"execute_err"}) > 0

\* the data property gave the call its rows: from the cache, or from a
\* remote read that succeeded
RowsAvailable ==
    /\ Accessed
    /\ last.data # <<>> \/ (RemoteCalls = 1 /\ ~RemoteFailed)

\* the names of the 16 columns of the transactions table, in order
ColumnNames ==
    <<"transaction_id", "date", "time", "type", "name", "emoji", "category",
      "amount", "currency", "local_amount", "local_currency", "notes_and_tags",
      "address", "receipt", "description", "category_split">>

\* t is a table called transactions with the 16 columns and n rows
IsTransactions(t, n) ==
    /\ t.kind = "table"
    /\ t.name = "transactions"
    /\ t.names = ColumnNames
    /\ DOMAIN t.columns = 1..16
    /\ \A i \in 1..16 : Len(t.columns[i]) = n

\* duck_db returned a table built from the data rows after the header
Built == last.op = "duck_db" /\ Returned /\ Len(last.dataAfter) > 1

\* the raw row that row r of the built table was made from
RawRow(r) == last.dataAfter[r + 1]

\* what column i of the table holds for a raw cell
CellValue(i, cell) ==
    LET pa_type == ColumnDefinitions[i].pa IN
    ArrowValue(pa_type, IF pa_type \in TypeConverters THEN Convert(pa_type, cell)
                        ELSE cell)

\* the columns of the built table that hold text
StringColumns == {i \in DOMAIN last.ret.types : last.ret.types[i] = "VARCHAR"}

\* the types of the 16 columns of the transactions table, in order
ColumnTypes ==
    <<"VARCHAR", "DATE", "TIME", "VARCHAR", "VARCHAR", "VARCHAR", "VARCHAR",
      "DECIMAL(10,2)", "VARCHAR", "DECIMAL(10,2)", "VARCHAR", "VARCHAR",
      "VARCHAR", "VARCHAR", "VARCHAR", "VARCHAR">>

\* the errors credentials() ends with when it obtains no credential
CredentialErrors == {"FlowError", "CredentialsNotSet", "FailedToSave"}

\* events of the methods credentials() calls
CredentialEvents ==
    {"_token_exists", "_add_credentials_from_token", "_refresh_token",
     "_add_credentials_from_secret", "_save_credentials", "keyring.get",
     "keyring.get_err", "keyring.set", "keyring.set_err", "refresh",
     "refresh_err", "flow", "flow_none", "flow_err"}

\* events of building a table
TableEvents == Count(last.trace, {"duckdb.connect", "CREATE TABLE", "register"})

----------------------------------------------------------------------------
(* Claims *)

\* C1: with no token in the keyring and no credential in memory,
\* credentials() runs the browser flow exactly once, never refreshes, and,
\* when the flow yields a credential, calls _save_credentials exactly once
\* and returns the credential the flow issued, which is what the keyring
\* then holds.
C1_NoTokenFlowOnce ==
    (FromNoCredential /\ last.store = NoToken) =>
        /\ FlowRuns = 1
        /\ RefreshCalls = 0
        /\ PersistCalls <= 1
        /\ FlowEvents = <<"flow">> =>
              /\ PersistCalls = 1
              /\ Ended("keyring.set") => Returned
        /\ Returned =>
              /\ FlowEvents = <<"flow">>
              /\ last.ret = Issued
              /\ last.storeAfter = ToJson(Issued)
              /\ Count(last.trace, {"keyring.set"}) = 1

C1_Witness ==
    /\ FromNoCredential
    /\ last.store = NoToken
    /\ Returned
    /\ last.ret = Issued

\* C2: with a FRESH token in the keyring that loads, credentials() runs
\* no browser flow, makes no refresh call, and returns the loaded credential.
C2_FreshNoFlowNoRefresh ==
    Loaded("FRESH") =>
        /\ FlowRuns = 0
        /\ RefreshCalls = 0
        /\ Returned
        /\ last.ret = FromAuthorizedUserInfo(last.store)

C2_Witness ==
    /\ Loaded("FRESH")
    /\ Returned
    /\ last.ret.state = "FRESH"

\* C3 (as claimed): with a STALE token in the keyring that loads and whose
\* refresh succeeds, credentials() makes exactly one refresh call and
\* exactly one _save_credentials call and never runs the browser flow,
\* whatever the keyring write does.
C3_StaleOneRefreshOnePersist ==
    (Loaded("STALE") /\ Count(last.trace, {"refresh_err"}) = 0) =>
        /\ RefreshCalls = 1
        /\ PersistCalls = 1
        /\ FlowRuns = 0

\* C4: with an INVALID token in the keyring that loads, credentials() runs
\* the browser flow and never refreshes; it returns exactly when its last
\* keyring write succeeds, and then returns a credential the flow issued in
\* this call, not the loaded one, and the keyring holds that credential.
C4_InvalidReauthorizes ==
    Loaded("INVALID") =>
        /\ FlowRuns >= 1
        /\ RefreshCalls = 0
        /\ Returned <=> Ended("keyring.set")
        /\ Returned =>
              /\ last.ret \in Creds
              /\ last.ret # FromAuthorizedUserInfo(last.store)
              /\ last.ret.id >= last.nextId
              /\ last.ret.state = "FRESH"
              /\ last.storeAfter = ToJson(last.ret)

C4_Witness ==
    /\ Loaded("INVALID")
    /\ Returned
    /\ last.ret.id = last.nextId

\* the keyring held a value and credentials() could not load it: one of
\* its keyring reads failed or the value was not a token
LoadFailed ==
    /\ FromNoCredential
    /\ last.store # NoToken
    /\ \/ last.store \in Garbage
       \/ ReadErrors >= 1

\* C5: when a token is present but loading it fails (keyring read error,
\* empty value, invalid JSON, wrong format) credentials() does not raise the
\* load failure: it runs the browser flow once, and when the flow yields a
\* credential it calls _save_credentials once and, if the write succeeds,
\* returns the new credential.
C5_LoadFailureFallsBack ==
    LoadFailed =>
        /\ last.exc \notin {"NoTokenFound", "InvalidTokenData"}
        /\ FlowRuns = 1
        /\ RefreshCalls = 0
        /\ FlowEvents = <<"flow">> => PersistCalls = 1
        /\ Returned <=> Ended("keyring.set")
        /\ Returned =>
              /\ last.ret = Issued
              /\ last.storeAfter = ToJson(Issued)

C5_Witness ==
    /\ LoadFailed
    /\ last.store = BadJson
    /\ Returned
    /\ last.ret = Issued

\* C6 (as claimed): every credentials() call that returns returns a
\* credential whose state is FRESH.
C6_ReturnsFresh ==
    (last.op = "credentials" /\ Returned) =>
        /\ last.ret \in Creds
        /\ last.ret.state = "FRESH"

C8_ClearAlwaysResets ==
    last.op = "clear_credentials" =>
        /\ Returned
        /\ last.credAfter = NoCred
        /\ Count(last.trace, {"keyring.delete", "keyring.delete_err"}) = 1
        /\ Len(last.trace) = 1

C8_Witness ==
    /\ last.op = "clear_credentials"
    /\ last.cred # NoCred
    /\ last.trace = <<"keyring.delete_err">>
    /\ last.credAfter = NoCred

\* C9: _save_credentials and _refresh_token called with _credentials None
\* raise ValueError("Credentials not set"), make no keyring write and no
\* refresh request, and leave the keyring and _credentials as they were.
C9_NoCredentialNoEffect ==
    (last.op \in {"_save_credentials", "_refresh_token"} /\ last.cred = NoCred) =>
        /\ last.exc = "CredentialsNotSet"
        /\ Len(last.trace) = 1
        /\ last.storeAfter = last.store
        /\ last.credAfter = NoCred

C9_Witness ==
    /\ last.op = "_refresh_token"
    /\ last.cred = NoCred
    /\ last.exc = "CredentialsNotSet"
    /\ last.store \in Tokens

\* C10: _token_exists returns True exactly when the keyring read succeeds
\* and holds a value (of any content) under the key, returns False without
\* raising when the read errors, and changes neither the keyring nor
\* _credentials.
C10_TokenExistsPure ==
    last.op = "_token_exists" =>
        /\ Returned
        /\ last.ret \in BOOLEAN
        /\ last.ret <=> (last.store # NoToken /\ ReadErrors = 0)
        /\ last.storeAfter = last.store
        /\ last.credAfter = last.cred

C10_Witness ==
    /\ last.op = "_token_exists"
    /\ last.store = EmptyString
    /\ ReadErrors = 0
    /\ last.ret = TRUE

\* C11 as stated: after an access of data that returned, the next access
\* returns the cache without calling fetch_data. The code tests the
\* truth of _data, so an access after a fetch of zero rows fetches again.
C11_NeverRefetches ==
    [][(last.op = "data" /\ last.exc = "none" /\ last'.op = "data")
          => Count(last'.trace, {"fetch_data"}) = 0]_vars

\* C11: an access of data with an empty cache calls fetch_data exactly
\* once, with at most one remote read, and when that returns the result is
\* the fetched rows; an access with a non-empty cache calls neither
\* fetch_data nor the remote service and returns the cache, which it
\* leaves alone.
C11_LazyFetch ==
    Accessed =>
        /\ last.data = <<>> =>
              /\ FetchCalls = 1
              /\ RemoteCalls <= 1
              /\ (last.op = "data" /\ Returned) =>
                    (RemoteCalls = 1 /\ last.ret = last.remote
                        /\ last.dataAfter = last.ret)
        /\ last.data # <<>> =>
              /\ FetchCalls = 0
              /\ RemoteCalls = 0
              /\ last.dataAfter = last.data
              /\ last.op = "data" => (Returned /\ last.ret = last.data)

C11_Witness ==
    /\ last.op = "data"
    /\ last.data # <<>>
    /\ Returned
    /\ last.ret = last.data
    /\ FetchCalls = 0

\* C12: when execute() raises, fetch_data, and the data access or the
\* duck_db call that led to it, raises that error after exactly one remote
\* call, and _data is what it was before the call.
C12_RemoteFailurePropagates ==
    RemoteFailed =>
        /\ last.op \in {"fetch_data", "data", "duck_db"}
        /\ last.exc = "HttpError"
        /\ RemoteCalls = 1
        /\ last.dataAfter = last.data
        /\ TableEvents = 0

C12_Witness ==
    /\ last.op = "fetch_data"
    /\ RemoteFailed
    /\ last.data # <<>>
    /\ last.dataAfter = last.data
    /\ last.exc = "HttpError"

\* C13: a duck_db call whose lazy fetch completed and left _data empty
\* raises the no-data error; and whenever _data is empty after a duck_db
\* call, whatever the outcome of the fetch, no connection is opened and no
\* table is created.
C13_EmptyDataRaises ==
    (last.op = "duck_db" /\ last.dataAfter = <<>>) =>
        /\ last.exc # "none"
        /\ RemoteCalls = 1 /\ ~RemoteFailed => last.exc = "NoDataAvailable"
        /\ last.ret = NoTable
        /\ TableEvents = 0

C13_Witness ==
    /\ last.op = "duck_db"
    /\ RemoteCalls = 1
    /\ ~RemoteFailed
    /\ last.dataAfter = <<>>
    /\ last.exc = "NoDataAvailable"

\* C14 as stated: duck_db on at most one raw row, zero rows included,
\* returns the empty transactions table. With zero rows the code raises
\* the no-data error instead.
C14_AtMostOneRowEmptyTable ==
    (last.op = "duck_db" /\ RowsAvailable /\ Len(last.dataAfter) <= 1) =>
        (Returned /\ IsTransactions(last.ret, 0))

\* C14: duck_db on exactly one raw row, whatever its cells hold, returns a
\* table named transactions with no rows and the 16 defined columns, made
\* by one CREATE TABLE statement and no conversion of the row.
C14_HeaderOnlyEmptyTable ==
    (last.op = "duck_db" /\ RowsAvailable /\ Len(last.dataAfter) = 1) =>
        /\ Returned
        /\ IsTransactions(last.ret, 0)
        /\ last.ret.types = [i \in 1..16 |-> ColumnDefinitions[i].duck]
        /\ Count(last.trace, {"CREATE TABLE"}) = 1
        /\ Count(last.trace, {"register"}) = 0

C14_Witness ==
    /\ last.op = "duck_db"
    /\ last.dataAfter = <<Row(16, "abc")>>
    /\ Returned
    /\ IsTransactions(last.ret, 0)

\* C15: duck_db on N > 1 raw rows, short, long and malformed rows
\* included, returns a table of exactly N - 1 rows, row r of the table
\* being made from raw row r + 1 (the first column shows which).
C15_AllButHeaderLoaded ==
    (last.op = "duck_db" /\ RowsAvailable /\ Len(last.dataAfter) > 1) =>
        /\ Returned
        /\ IsTransactions(last.ret, Len(last.dataAfter) - 1)
        /\ \A r \in 1..(Len(last.dataAfter) - 1) :
              last.ret.columns[1][r] = last.dataAfter[r + 1][1]

NotANumber(chars) ==
    \E k \in DOMAIN chars : chars[k] \notin Digits \cup {"+", "-", ".", " "}

\* C18: an amount cell "-4.50" is stored as -4.50 with 2 fractional
\* digits; an empty string or None is stored as null; a cell that is not a
\* number, such as "abc", is stored as null.
C18_DecimalCoercion ==
    last.op = "convert" =>
        /\ last.cell = GoodAmount =>
              last.stored = [kind |-> "decimal128", neg |-> TRUE,
                             unscaled |-> <<"4", "5", "0">>, scale |-> 2]
        /\ last.cell \in {None, Str(<<>>)} => last.stored = None
        /\ (last.cell.kind = "str" /\ NotANumber(last.cell.chars)) =>
              last.stored = None

\* C16: every row of a built table has exactly 16 values; value i is the
\* conversion of raw cell i of the raw row of that table row and of
\* nothing else; where the raw row has no cell i the value is null; cells
\* past the 16th do not appear.
C16_SixteenValuesByPosition ==
    Built =>
        /\ IsTransactions(last.ret, Len(last.dataAfter) - 1)
        /\ \A r \in 1..(Len(last.dataAfter) - 1) : \A i \in 1..16 :
              last.ret.columns[i][r] =
                  IF i <= Len(RawRow(r)) THEN CellValue(i, RawRow(r)[i]) ELSE None

C16_Witness ==
    /\ Built
    /\ \E r \in 1..(Len(last.dataAfter) - 1) :
          /\ Len(RawRow(r)) = 8
          /\ last.ret.columns[8][r] # None
          /\ last.ret.columns[9][r] = None
    /\ \E r \in 1..(Len(last.dataAfter) - 1) :
          /\ Len(RawRow(r)) = 17
          /\ last.ret.columns[16][r] = RawRow(r)[16]

\* C20 as stated: the built table has 11 string columns, each holding
\* the raw cell verbatim. The code defines 12.
C20_ElevenStringColumns ==
    Built =>
        /\ Cardinality(StringColumns) = 11
        /\ \A i \in StringColumns : \A r \in 1..(Len(last.dataAfter) - 1) :
              i <= Len(RawRow(r)) => last.ret.columns[i][r] = RawRow(r)[i]

\* C20: the built table has 12 string columns, every column but date,
\* time, amount and local_amount; each holds a present raw cell verbatim,
\* an empty string as an empty string, and holds null exactly where the
\* raw row is too short to have the cell.
C20_StringsVerbatim ==
    Built =>
        /\ Cardinality(StringColumns) = 12
        /\ StringColumns = (1..16) \ {2, 3, 8, 10}
        /\ \A i \in StringColumns : \A r \in 1..(Len(last.dataAfter) - 1) :
              /\ i <= Len(RawRow(r)) => last.ret.columns[i][r] = RawRow(r)[i]
              /\ last.ret.columns[i][r] = None <=> i > Len(RawRow(r))

C20_Witness ==
    /\ Built
    /\ \E r \in 1..(Len(last.dataAfter) - 1) :
          /\ RawRow(r) = Row(16, "blank")
          /\ last.ret.columns[1][r] = Str(<<>>)
    /\ \E r \in 1..(Len(last.dataAfter) - 1) :
          /\ Len(RawRow(r)) = 8
          /\ last.ret.columns[16][r] = None

\* a field of one or two digits
ShortNumber(f) == Len(f) \in {1, 2} /\ IsDigits(f)

\* the text is dd/mm/yyyy: two digits, two digits and four digits
TwoTwoFour(chars) ==
    /\ Len(chars) = 10
    /\ chars[3] = "/" /\ chars[6] = "/"
    /\ \A k \in {1, 2, 4, 5, 7, 8, 9, 10} : chars[k] \in Digits

\* day d of month m of year y is a day of the calendar
RealDate(y, m, d) ==
    /\ y >= 1
    /\ m \in 1..12
    /\ d >= 1
    /\ d <= (IF m = 2 THEN (IF y % 4 = 0 /\ (y % 100 # 0 \/ y % 400 = 0) THEN 29 ELSE 28)
             ELSE IF m \in {4, 6, 9, 11} THEN 30 ELSE 31)

\* the text is day/month/year with a day and a month of one or two digits
\* (a one-digit day may follow a space) and a year of four digits
DayMonthYear(chars) ==
    LET f == Split(chars, "/") IN
    /\ Len(f) = 3
    /\ ShortNumber(f[1]) \/ (Len(f[1]) = 2 /\ f[1][1] = " " /\ f[1][2] \in Digits)
    /\ ShortNumber(f[2])
    /\ Len(f[3]) = 4 /\ IsDigits(f[3])

\* the text is hour:minute:second, each of one or two digits
HourMinuteSecond(chars) ==
    LET f == Split(chars, ":") IN
    /\ Len(f) = 3
    /\ \A k \in 1..3 : ShortNumber(f[k])
    /\ Num(f[1]) <= 23 /\ Num(f[2]) <= 59 /\ Num(f[3]) <= 59

\* the numbers of the three fields of a text cut at sep
Field(chars, sep, k) == Num(Strip(Split(chars, sep)[k]))

\* C19 as stated: a date cell yields a date exactly when it is two
\* digits, two digits and four digits naming a real date. strptime also
\* takes a day or a month of one digit.
C19_DateOnlyTwoDigitFields ==
    (last.op = "convert" /\ last.cell.kind = "str") =>
        LET chars == last.cell.chars IN
        /\ last.date # None <=>
              (TwoTwoFour(chars) /\ RealDate(Field(chars, "/", 3),
                                              Field(chars, "/", 2),
                                              Field(chars, "/", 1)))
        /\ last.time # None <=> HourMinuteSecond(chars)

\* C19: a date cell yields a calendar date exactly when it is
\* day/month/year, the day and the month written with one or two digits
\* and the year with four, naming a real date, and the date is that one
\* ("15/06/2025" gives 2025-06-15, "2025-06-15" gives null); a time cell
\* yields a time exactly when it is hour:minute:second, each of one or two
\* digits, with hour up to 23 and minute and second up to 59 ("09:30:15"
\* gives 09:30:15); a cell that is not text yields null for both.
C19_DateTimeCoercion ==
    last.op = "convert" =>
        /\ last.cell.kind # "str" => (last.date = None /\ last.time = None)
        /\ last.cell.kind = "str" =>
              LET chars == last.cell.chars
                  isDate == DayMonthYear(chars)
                                /\ RealDate(Field(chars, "/", 3), Field(chars, "/", 2),
                                            Field(chars, "/", 1))
                  isTime == HourMinuteSecond(chars)
              IN  /\ last.date # None <=> isDate
                  /\ isDate => last.date = [kind |-> "date",
                                            year |-> Field(chars, "/", 3),
                                            month |-> Field(chars, "/", 2),
                                            day |-> Field(chars, "/", 1)]
                  /\ last.time # None <=> isTime
                  /\ isTime => last.time = [kind |-> "time",
                                            hour |-> Field(chars, ":", 1),
                                            minute |-> Field(chars, ":", 2),
                                            second |-> Field(chars, ":", 3)]
        /\ last.cell = GoodDate =>
              last.date = [kind |-> "date", year |-> 2025, month |-> 6, day |-> 15]
        /\ last.cell = IsoDate => last.date = None
        /\ last.cell = GoodTime =>
              last.time = [kind |-> "time", hour |-> 9, minute |-> 30, second |-> 15]

C19_Witness ==
    /\ last.op = "convert"
    /\ last.cell = Str(<<"5", "/", "6", "/", "2", "0", "2", "5">>)
    /\ last.date = [kind |-> "date", year |-> 2025, month |-> 6, day |-> 5]

\* C21: every table duck_db returns, made by CREATE TABLE from a header
\* alone or registered from data rows, has the same 16 column names in
\* the same order with the same types, whatever the header row holds and
\* however many cells the raw rows have.
C21_FixedSchema ==
    (last.op = "duck_db" /\ Returned) =>
        /\ last.ret.kind = "table"
        /\ last.ret.name = "transactions"
        /\ last.ret.names = ColumnNames
        /\ last.ret.types = ColumnTypes
        /\ DOMAIN last.ret.columns = 1..16

C21_Witness ==
    /\ Built
    /\ last.dataAfter[1] = Row(16, "abc")
    /\ \E r \in 1..(Len(last.dataAfter) - 1) : Len(RawRow(r)) = 8
    /\ last.ret.types = ColumnTypes
    /\ Count(last.trace, {"register"}) = 1

\* the identifier is absent or empty
Missing(v) == v \in {None, Str(<<>>)}

\* C22: __init__ raises the missing-identifier error exactly when the
\* identifier is absent or empty both as parameter and in the environment;
\* otherwise the identifier in effect is the parameter when it is given
\* and the environment value only when it is not.
C22_IdentifierRequired ==
    last.op = "__init__" =>
        /\ last.exc = "SpreadsheetIdRequired" <=>
              (Missing(last.spreadsheet_id) /\ Missing(last.env))
        /\ last.exc \in {"none", "SpreadsheetIdRequired"}
        /\ last.exc = "none" =>
              last.effective = IF Missing(last.spreadsheet_id) THEN last.env
                               ELSE last.spreadsheet_id

C22_Witness ==
    /\ last.op = "__init__"
    /\ last.spreadsheet_id = Str(<<"a">>)
    /\ last.env = Str(<<"b">>)
    /\ last.exc = "none"
    /\ last.effective = Str(<<"a">>)

C24_EmptyResultRefetched ==
    remote = <<>> =>
        /\ data = <<>>
        /\ Accessed =>
              /\ FetchCalls = 1
              /\ last.exc \notin CredentialErrors => RemoteCalls = 1
              /\ last.dataAfter = <<>>
              /\ (last.op = "data" /\ Returned) => last.ret = <<>>
              /\ last.op = "duck_db" => (~Returned /\ last.ret = NoTable)

\* an access by an instance that already holds a credential and has
\* saved its token, as after an earlier fetch: it reads the sheet again
C24_Witness ==
    /\ remote = <<>>
    /\ last.op = "data"
    /\ last.cred # NoCred
    /\ last.store # NoToken
    /\ RemoteCalls = 1
    /\ ~RemoteFailed
    /\ Returned
    /\ last.ret = <<>>

\* C26: the remote read comes after everything credentials() did in the
\* call and only when the instance then holds a credential; when
\* credentials() raises there is no remote read, _data is unchanged and
\* no table is built.
C26_ReadOnlyWithCredential ==
    last.op \in {"fetch_data", "data", "duck_db"} =>
        /\ RemoteCalls > 0 =>
              /\ last.credAfter # NoCred
              /\ \A k \in DOMAIN last.trace :
                    last.trace[k] \in {"execute", "execute_err"} =>
                        \A j \in DOMAIN last.trace :
                            j > k => last.trace[j] \notin CredentialEvents
        /\ last.exc \in CredentialErrors =>
              /\ RemoteCalls = 0
              /\ last.dataAfter = last.data
              /\ TableEvents = 0
              /\ last.op = "duck_db" => last.ret = NoTable

C26_Witness ==
    /\ last.op = "duck_db"
    /\ last.exc = "FlowError"
    /\ Count(last.trace, {"service"}) = 1
    /\ RemoteCalls = 0
    /\ last.dataAfter = <<>>
    /\ last.ret = NoTable

\* C25: when the refresh of a STALE token loaded from the keyring fails,
\* credentials() raises the error of the refresh: it runs no browser
\* flow, calls _save_credentials not at all and leaves the keyring as it
\* was.
C25_RefreshFailurePropagates ==
    (Loaded("STALE") /\ Count(last.trace, {"refresh_err"}) > 0) =>
        /\ last.exc = "RefreshError"
        /\ FlowRuns = 0
        /\ PersistCalls = 0
        /\ Count(last.trace, {"keyring.set", "keyring.set_err"}) = 0
        /\ last.storeAfter = last.store

C25_Witness ==
    /\ Loaded("STALE")
    /\ RefreshCalls = 1
    /\ Count(last.trace, {"refresh_err"}) = 1
    /\ last.exc = "RefreshError"

\* C27: one credentials() call runs the browser flow at most once and
\* calls _save_credentials at most once, whatever the keyring holds and
\* whatever the keyring reads, the keyring writes and the refresh do.
C27_AtMostOneFlowOnePersist ==
    last.op = "credentials" => (FlowRuns <= 1 /\ PersistCalls <= 1)

\* C28: a credentials() call that raises leaves _credentials unset.
C28_RaiseLeavesUnset ==
    (last.op = "credentials" /\ ~Returned) => last.credAfter = NoCred

Raced == last.op = "credentials" /\ Count(last.trace, OtherEvents) > 0

\* events of the log that are failures of the keyring, the refresh request
\* or the browser flow
Failures == {"keyring.get_err", "keyring.set_err", "refresh_err",
             "flow_err", "flow_none"}

\* C30: a credentials() call during which a second instance deleted or
\* overwrote the keyring token between the existence check and the load
\* never ends with the error of the load; when no keyring access, refresh
\* or flow of the call failed it returns a FRESH credential, which the
\* instance then holds; and when the token was gone at the read that
\* follows, that credential is the one its single browser flow issued,
\* saved to the keyring.
C30_RacedCallEndsWithCredential ==
    /\ [](Raced => last.exc \notin {"NoTokenFound", "InvalidTokenData"})
    /\ []((Raced /\ Count(last.trace, Failures) = 0) =>
            /\ Returned
            /\ last.ret \in Creds
            /\ last.ret.state = "FRESH"
            /\ last.credAfter = last.ret)
    /\ [][(/\ InFlight
           /\ Count(last.trace, OtherEvents) > 0
           /\ store = NoToken
           /\ last'.op = "credentials"
           /\ Count(last'.trace, Failures) = 0) =>
              /\ Count(last'.trace, {"flow"}) = 1
              /\ last'.exc = "none"
              /\ last'.ret = [kind |-> "Credentials", id |-> last.nextId,
                              state |-> "FRESH"]
              /\ store' = ToJson(last'.ret)]_vars

\* a call that found a token at both existence checks, lost it to a
\* deletion before the load, and returned the credential of the flow
C30_Witness ==
    /\ Raced
    /\ last.store \in Tokens
    /\ Count(last.trace, {"keyring.get"}) = 3
    /\ last.trace[Len(last.trace) - 5] = "other.delete"
    /\ Count(last.trace, {"flow"}) = 1
    /\ Returned
    /\ last.ret = Issued
    /\ last.storeAfter = ToJson(Issued)

====
